---- MODULE Spec2Model ----
(***************************************************************************)
(* A model of the content-ingestion service of ChatbotAdmin                *)
(* (src/src/crawling/crawling.service.ts and the BedrockService and        *)
(* DatabaseService it calls).                                              *)
(*                                                                         *)
(* The module holds several specifications over one set of variables:      *)
(*   SpecChunk   the text chunker applied to bounded texts                 *)
(*   SpecBatch   batchCrawl invocations interleaved at their awaits        *)
(*   SpecBatchFair  SpecBatch in which every awaited fetch settles         *)
(*   SpecJobs    one batchCrawl invocation with status and result queries  *)
(*   SpecLinks   collectSiteLinks applied to bounded pages                 *)
(*   SpecCrawl   one website crawl against a site that may fail, redirect  *)
(*               and link back to itself                                   *)
(*   SpecIngest  crawlContent called repeatedly on one URL of each type    *)
(*   SpecDetect  crawlContent's type detection applied to bounded URLs     *)
(***************************************************************************)
EXTENDS Integers, Sequences, FiniteSets, TLC

VARIABLES
    text,           \* splitTextIntoChunks: the input text, a sequence of characters
    maxChunkSize,   \* splitTextIntoChunks: its maxChunkSize argument
    chunks,         \* splitTextIntoChunks: the chunks returned
    chunkPc,        \* "ready" before the call, "done" after it
    crawlJobs,      \* CrawlingService.crawlJobs: job id -> job, NoJob where unset
    batchPc,        \* per batchCrawl invocation: "idle", "fetching", "done", "raised"
    batchUrls,      \* per invocation: its urls argument
    batchIdx,       \* per invocation: the position of the url being fetched
    batchResults,   \* per invocation: its local results array (what it returns)
    batchJobId,     \* per invocation: the id generateJobId gave it
    reply,          \* what the handler that ran last answered, NoReply if nothing
    linkBase,       \* collectSiteLinks: its baseUrl argument
    pageHrefs,      \* collectSiteLinks: the href attributes of the page's a[href] elements
    siteLinks,      \* collectSiteLinks: the links returned
    linksPc,        \* "ready" before the call, then "done" or "failed" (the catch)
    runPc,          \* crawlContent: the await the call is at, "returned" or "raised"
    runNo,          \* how many crawlContent calls have been made
    runUrl,         \* crawlContent: its url argument
    runType,        \* crawlContent: what detectUrlType answered
    runMaxPages,    \* crawlContent: its maxPages argument
    browser,        \* crawlWebsiteWithEmbedding: "null", "open" or "closed"
    crawledPages,   \* crawlWebsiteWithEmbedding: the pages captured so far
    uniqueLinks,    \* crawlWebsiteWithEmbedding: the links to visit
    linkIdx,        \* crawlWebsiteWithEmbedding: the position of the link being visited
    docParts,       \* processGitHubRepo: allContent, the parts of the document
    docChunks,      \* processPdf/Markdown/GitHubRepo: chunks.length
    pageIndex,      \* saveToDatabase: the page being embedded
    chunkIndex,     \* the chunk being embedded
    records,        \* the records built so far
    tmp,            \* the rows of table tmp
    nextId,         \* the next value of the SERIAL column id
    log,            \* what the call has done to the browser, Bedrock and the table
    outcome          \* what the call returned or raised, NoResult before that

chunkVars == <<text, maxChunkSize, chunks, chunkPc>>

batchVars == <<crawlJobs, batchPc, batchUrls, batchIdx, batchResults, batchJobId, reply>>

linkVars == <<linkBase, pageHrefs, siteLinks, linksPc>>

callVars == <<runNo, runUrl, runType, runMaxPages>>

siteVars == <<browser, crawledPages, uniqueLinks, linkIdx>>

saveVars == <<docParts, docChunks, pageIndex, chunkIndex, records>>

dbVars == <<tmp, nextId>>

runVars == <<runPc, runNo, runUrl, runType, runMaxPages,
             browser, crawledPages, uniqueLinks, linkIdx,
             docParts, docChunks, pageIndex, chunkIndex, records, tmp, nextId, log, outcome>>

vars == <<text, maxChunkSize, chunks, chunkPc,
          crawlJobs, batchPc, batchUrls, batchIdx, batchResults, batchJobId, reply,
          linkBase, pageHrefs, siteLinks, linksPc,
          runPc, runNo, runUrl, runType, runMaxPages,
          browser, crawledPages, uniqueLinks, linkIdx,
          docParts, docChunks, pageIndex, chunkIndex, records, tmp, nextId, log, outcome>>

(***************************************************************************)
(* Bounds of the model.                                                    *)
(***************************************************************************)
MaxTextLen == 6
MaxChunkSizeArg == 3
MaxUrls == 2
MaxHrefs == 3

(***************************************************************************)
(* Strings are sequences of one-character strings.                         *)
(***************************************************************************)
Alphabet == {"a", " ", ".", "?"}

Texts == UNION {[1..n -> Alphabet] : n \in 0..MaxTextLen}

\* The character class [.!?] of the split pattern.
IsTerminator(c) == c \in {".", "!", "?"}

\* What String.prototype.trim and \s treat as white space.
IsSpace(c) == c \in {" ", "\n", "\t"}

RECURSIVE TrimStart(_)
TrimStart(s) ==
    IF s = <<>> THEN <<>>
    ELSE IF IsSpace(Head(s)) THEN TrimStart(Tail(s))
    ELSE s

RECURSIVE TrimEnd(_)
TrimEnd(s) ==
    IF s = <<>> THEN <<>>
    ELSE IF IsSpace(s[Len(s)]) THEN TrimEnd(SubSeq(s, 1, Len(s) - 1))
    ELSE s

\* s.trim()
Trim(s) == TrimEnd(TrimStart(s))

\* text.split(/[.!?]+/): the maximal runs of non-terminator characters, with an
\* empty string before a leading and after a trailing run of terminators.
\* `cur` is the piece being read, `inSep` whether the last character read was a
\* terminator.
RECURSIVE SplitOnTerminators(_, _, _)
SplitOnTerminators(s, cur, inSep) ==
    IF s = <<>> THEN <<cur>>
    ELSE IF IsTerminator(Head(s))
         THEN IF inSep THEN SplitOnTerminators(Tail(s), cur, TRUE)
              ELSE <<cur>> \o SplitOnTerminators(Tail(s), <<>>, TRUE)
         ELSE SplitOnTerminators(Tail(s), Append(cur, Head(s)), FALSE)

\* .filter(s => s.trim().length > 0)
RECURSIVE FilterNonBlank(_)
FilterNonBlank(ss) ==
    IF ss = <<>> THEN <<>>
    ELSE IF Len(Trim(Head(ss))) > 0
         THEN <<Head(ss)>> \o FilterNonBlank(Tail(ss))
         ELSE FilterNonBlank(Tail(ss))

\* The sentences of a text: line 603.
Sentences(t) == FilterNonBlank(SplitOnTerminators(t, <<>>, FALSE))

\* The separator the chunker puts between two sentences of one chunk.
DotSpace == <<".", " ">>

\* A chunker that loses the sentence that triggers a flush.
ChunkStepDropsSentence(st, sentence, maxSize) ==
    IF Len(st.currentChunk) + Len(sentence) > maxSize /\ Len(st.currentChunk) > 0
    THEN [chunks |-> Append(st.chunks, Trim(st.currentChunk)),
          currentChunk |-> <<>>]
    ELSE [chunks |-> st.chunks,
          currentChunk |-> st.currentChunk
                           \o (IF st.currentChunk # <<>> THEN DotSpace ELSE <<>>)
                           \o sentence]

\* A chunker that joins every sentence to the buffer and never flushes.
ChunkStepNeverFlushes(st, sentence, maxSize) ==
    [chunks |-> st.chunks,
     currentChunk |-> st.currentChunk
                      \o (IF st.currentChunk # <<>> THEN DotSpace ELSE <<>>)
                      \o sentence]

\* One iteration of the loop of lines 607-614 on the state
\* [chunks, currentChunk].
ChunkStep(st, sentence, maxSize) ==
    IF Len(st.currentChunk) + Len(sentence) > maxSize /\ Len(st.currentChunk) > 0
    THEN [chunks |-> Append(st.chunks, Trim(st.currentChunk)),
          currentChunk |-> sentence]
    ELSE [chunks |-> st.chunks,
          currentChunk |-> st.currentChunk
                           \o (IF st.currentChunk # <<>> THEN DotSpace ELSE <<>>)
                           \o sentence]

RECURSIVE ChunkLoop(_, _, _)
ChunkLoop(st, sentences, maxSize) ==
    IF sentences = <<>> THEN st
    ELSE ChunkLoop(ChunkStep(st, Head(sentences), maxSize), Tail(sentences), maxSize)

\* splitTextIntoChunks(text, maxChunkSize): lines 602-621.
splitTextIntoChunks(t, maxSize) ==
    LET st == ChunkLoop([chunks |-> <<>>, currentChunk |-> <<>>], Sentences(t), maxSize)
    IN  IF Trim(st.currentChunk) # <<>>
        THEN Append(st.chunks, Trim(st.currentChunk))
        ELSE st.chunks

(***************************************************************************)
(* Batch jobs: batchCrawl, getCrawlStatus, getCrawlResults.                *)
(***************************************************************************)
\* The batchCrawl invocations that may be in flight together.
Procs == {"p1", "p2"}

\* The ids generateJobId can return: job_<Date.now()>_<Math.random()> is not
\* checked against the table, so it may return an id already in use.
JobIds == {"j1", "j2"}

\* The ids a status or results request can carry.
QueryIds == JobIds \cup {"nonexistent"}

\* The urls of a batch request, and those whose axios.get fails (line 394).
Urls == {"A", "B", "C"}
UnreachableUrls == {"B"}

UrlLists == UNION {[1..n -> Urls] : n \in 0..MaxUrls}

NoJob == [status |-> "none"]
NoReply == [op |-> "none"]
Threw == [threw |-> TRUE]

\* crawlUrl(url): a CrawlResult, or the error of lines 427-430.
crawlUrl(url) ==
    IF url \in UnreachableUrls THEN Threw ELSE [threw |-> FALSE, url |-> url]

\* The job entry of lines 671-676.
NewJob(urls) ==
    [status |-> "running", total |-> Len(urls), completed |-> 0,
     results |-> <<>>, error |-> ""]

\* A local results array that puts the newest result first.
PushResultInFront(results, result) == <<result>> \o results

\* results.push(result): line 682.
PushResult(results, result) == Append(results, result)

\* Lines 684-687 on the job entry.
JobAfterResult(job, result) ==
    [job EXCEPT !.completed = @ + 1, !.results = Append(@, result)]

\* A loop that starts the fetch of the next url and of the one after it
\* together: the position moves on by two.
AfterUrlStartsTwo(p, jobs, results) ==
    /\ crawlJobs' = jobs
    /\ batchResults' = [batchResults EXCEPT ![p] = results]
    /\ batchIdx' = [batchIdx EXCEPT ![p] = @ + 2]
    /\ batchPc' = [batchPc EXCEPT ![p] = IF batchIdx[p] + 2 <= Len(batchUrls[p])
                                         THEN "fetching" ELSE "done"]

\* The table and the invocation after the loop body ran on urls[i] and the
\* loop went on to its next await or, past the last url, to lines 694-698
\* (or, had the entry gone, to the catch of lines 700-707).
AfterUrl(p, jobs, results) ==
    IF batchIdx[p] < Len(batchUrls[p])
    THEN /\ crawlJobs' = jobs
         /\ batchResults' = [batchResults EXCEPT ![p] = results]
         /\ batchIdx' = [batchIdx EXCEPT ![p] = @ + 1]
         /\ UNCHANGED batchPc
    ELSE /\ batchResults' = [batchResults EXCEPT ![p] = results]
         /\ batchIdx' = [batchIdx EXCEPT ![p] = @ + 1]
         /\ IF jobs[batchJobId[p]] # NoJob
            THEN /\ crawlJobs' = [jobs EXCEPT ![batchJobId[p]].status = "completed"]
                 /\ batchPc' = [batchPc EXCEPT ![p] = "done"]
            ELSE /\ crawlJobs' = jobs
                 /\ batchPc' = [batchPc EXCEPT ![p] = "raised"]

\* batchCrawl(urls) up to its first await: lines 667-681. An empty list runs
\* through to the return of line 698 at once.
BatchCrawl(p, urls, id) ==
    /\ batchPc[p] = "idle"
    /\ batchUrls' = [batchUrls EXCEPT ![p] = urls]
    /\ batchJobId' = [batchJobId EXCEPT ![p] = id]
    /\ batchResults' = [batchResults EXCEPT ![p] = <<>>]
    /\ batchIdx' = [batchIdx EXCEPT ![p] = 1]
    /\ IF urls = <<>>
       THEN /\ crawlJobs' = [crawlJobs EXCEPT ![id] = [NewJob(urls) EXCEPT !.status = "completed"]]
            /\ batchPc' = [batchPc EXCEPT ![p] = "done"]
       ELSE /\ crawlJobs' = [crawlJobs EXCEPT ![id] = NewJob(urls)]
            /\ batchPc' = [batchPc EXCEPT ![p] = "fetching"]
    /\ reply' = NoReply
    /\ UNCHANGED <<runVars, chunkVars, linkVars>>

\* The awaited crawlUrl returned: lines 682-687, then the next iteration.
CrawlUrlReturns(p) ==
    /\ batchPc[p] = "fetching"
    /\ LET result == crawlUrl(batchUrls[p][batchIdx[p]])
           id == batchJobId[p]
       IN  /\ ~result.threw
           /\ IF crawlJobs[id] # NoJob
              THEN AfterUrl(p, [crawlJobs EXCEPT ![id] = JobAfterResult(@, result)],
                            PushResult(batchResults[p], result))
              ELSE AfterUrl(p, crawlJobs, PushResult(batchResults[p], result))
    /\ reply' = NoReply
    /\ UNCHANGED <<runVars, chunkVars, linkVars, batchUrls, batchJobId>>

\* The awaited crawlUrl threw: the catch of lines 689-691, then the next iteration.
CrawlUrlThrows(p) ==
    /\ batchPc[p] = "fetching"
    /\ crawlUrl(batchUrls[p][batchIdx[p]]).threw
    /\ AfterUrl(p, crawlJobs, batchResults[p])
    /\ reply' = NoReply
    /\ UNCHANGED <<runVars, chunkVars, linkVars, batchUrls, batchJobId>>

\* A JavaScript number that is an integer, and NaN.
Number(n) == [nan |-> FALSE, value |-> n]
NaN == [nan |-> TRUE, value |-> 0]

\* Math.round((completed / total) * 100): Math.round rounds a half upwards;
\* 0 / 0 is NaN, and so is Math.round(NaN).
Percentage(job) ==
    IF job.total = 0 THEN NaN
    ELSE Number((200 * job.completed + job.total) \div (2 * job.total))

NotFound(op, id) == [op |-> op, jobId |-> id, ok |-> FALSE, error |-> "not found"]

\* getCrawlStatus(jobId) on the table: lines 710-725.
getCrawlStatus(jobs, id) ==
    IF id \notin DOMAIN jobs \/ jobs[id] = NoJob
    THEN NotFound("status", id)
    ELSE [op |-> "status", jobId |-> id, ok |-> TRUE, status |-> jobs[id].status,
          total |-> jobs[id].total, completed |-> jobs[id].completed,
          percentage |-> Percentage(jobs[id])]

\* A getCrawlResults that answers an unknown id with an empty list.
getCrawlResultsOrEmpty(jobs, id) ==
    IF id \notin DOMAIN jobs \/ jobs[id] = NoJob
    THEN [op |-> "results", jobId |-> id, ok |-> TRUE, results |-> <<>>]
    ELSE [op |-> "results", jobId |-> id, ok |-> TRUE, results |-> jobs[id].results]

\* getCrawlResults(jobId) on the table: lines 727-734.
getCrawlResults(jobs, id) ==
    IF id \notin DOMAIN jobs \/ jobs[id] = NoJob
    THEN NotFound("results", id)
    ELSE [op |-> "results", jobId |-> id, ok |-> TRUE, results |-> jobs[id].results]

\* The two request handlers: they hold no await and run in one step.
GetCrawlStatus(id) ==
    /\ reply' = getCrawlStatus(crawlJobs, id)
    /\ UNCHANGED <<runVars, chunkVars, linkVars, crawlJobs, batchPc, batchUrls, batchIdx, batchResults, batchJobId>>

GetCrawlResults(id) ==
    /\ reply' = getCrawlResults(crawlJobs, id)
    /\ UNCHANGED <<runVars, chunkVars, linkVars, crawlJobs, batchPc, batchUrls, batchIdx, batchResults, batchJobId>>

BatchIdle ==
    /\ crawlJobs = [id \in JobIds |-> NoJob]
    /\ batchPc = [p \in Procs |-> "idle"]
    /\ batchUrls = [p \in Procs |-> <<>>]
    /\ batchIdx = [p \in Procs |-> 1]
    /\ batchResults = [p \in Procs |-> <<>>]
    /\ batchJobId = [p \in Procs |-> "j1"]
    /\ reply = NoReply

(***************************************************************************)
(* URLs and site-link collection: collectSiteLinks.                        *)
(*                                                                         *)
(* A URL string is a record of its parts as written: abs (whether it has a *)
(* scheme and host, so that new URL(s) parses it), host, the directories   *)
(* and the file name with its extension that make up the path, query and   *)
(* fragment. Two records are equal exactly when the strings are.           *)
(***************************************************************************)
Url(host, dirs, file, ext, query, frag) ==
    [abs |-> TRUE, host |-> host, dirs |-> dirs, file |-> file, ext |-> ext,
     query |-> query, frag |-> frag]

\* A string that new URL(s) rejects: a path with no scheme or host.
BarePath(dirs, file, ext) ==
    [abs |-> FALSE, host |-> "", dirs |-> dirs, file |-> file, ext |-> ext,
     query |-> "", frag |-> ""]

\* toLowerCase on the host names and extensions of the model.
Lower(str) ==
    CASE str = "SITE.com" -> "site.com"
      [] str = "PDF" -> "pdf"
      [] str = "Js" -> "js"
      [] str = "MD" -> "md"
      [] str = "Markdown" -> "markdown"
      [] OTHER -> str

\* new URL(s).hostname
Hostname(u) == Lower(u.host)

\* new URL(s).href: the string with its host in lower case.
NormalizedUrl(u) == [u EXCEPT !.host = Lower(u.host)]

\* The extensions of the pattern of line 502.
ExcludedExtensions == {"pdf", "jpg", "jpeg", "png", "gif", "css", "js", "ico"}

\* linkUrl.pathname.match(/\.(pdf|jpg|jpeg|png|gif|css|js|ico)$/i)
HasExcludedExtension(u) == Lower(u.ext) \in ExcludedExtensions

\* linkUrl.pathname.includes('/api/'): a directory of the path named api.
PathIncludesDir(u, name) == \E k \in 1..Len(u.dirs) : u.dirs[k] = name

\* The href attributes of the model. kind is the shape of the string:
\*   "abs"      http(s)://host/path      "root"   /path
\*   "proto"    //host/path              "rel"    path or ./path
\*   "httprel"  a relative path whose first letters are http
\*   "frag"     #fragment                "mailto" mailto:address
Href(kind, host, dirs, file, ext, frag) ==
    [kind |-> kind, host |-> host, dirs |-> dirs, file |-> file, ext |-> ext, frag |-> frag]

Hrefs ==
    { Href("abs", "site.com", <<>>, "page2", "", ""),
      Href("abs", "SITE.com", <<>>, "page4", "", ""),
      Href("abs", "other-host.com", <<>>, "x", "", ""),
      Href("root", "", <<"api">>, "foo", "", ""),
      Href("root", "", <<"admin">>, "bar", "", ""),
      Href("root", "", <<>>, "page2", "", ""),
      Href("root", "", <<>>, "page2", "", "top"),
      Href("root", "", <<>>, "doc", "PDF", ""),
      Href("root", "", <<>>, "data", "json", ""),
      Href("rel", "", <<>>, "page3", "", ""),
      Href("rel", "", <<"img">>, "logo", "png", ""),
      Href("proto", "site.com", <<>>, "page5", "", ""),
      Href("proto", "other-host.com", <<>>, "x", "", ""),
      Href("httprel", "", <<>>, "http-faq", "html", ""),
      Href("frag", "", <<>>, "", "", "top"),
      Href("mailto", "", <<>>, "", "", "") }

HrefLists == UNION {[1..n -> Hrefs] : n \in 0..MaxHrefs}

\* The baseUrl arguments of the model: https://site.com/ and
\* https://site.com/docs/index.html.
BaseUrls ==
    { Url("site.com", <<>>, "", "", "", ""),
      Url("site.com", <<"docs">>, "index", "html", "", "") }

\* new URL(href, baseUrl).href: the URL an href stands for on the page.
ResolveHref(h, base) ==
    CASE h.kind = "abs" -> Url(Lower(h.host), h.dirs, h.file, h.ext, "", h.frag)
      [] h.kind = "proto" -> Url(Lower(h.host), h.dirs, h.file, h.ext, "", h.frag)
      [] h.kind = "root" -> Url(Hostname(base), h.dirs, h.file, h.ext, "", h.frag)
      [] h.kind \in {"rel", "httprel"} ->
            Url(Hostname(base), base.dirs \o h.dirs, h.file, h.ext, "", h.frag)
      [] h.kind = "frag" ->
            Url(Hostname(base), base.dirs, base.file, base.ext, base.query, h.frag)
      [] OTHER -> Url("", <<>>, "", "", "", "")

\* fullUrl of lines 488-497; NoUrl for the early return of line 496.
NoUrl == [abs |-> FALSE, host |-> "none", dirs |-> <<>>, file |-> "", ext |-> "",
          query |-> "", frag |-> ""]

FullUrl(h, base) ==
    CASE h.kind = "abs" -> Url(h.host, h.dirs, h.file, h.ext, "", h.frag)
      [] h.kind = "httprel" -> BarePath(h.dirs, h.file, h.ext)
      [] h.kind = "root" -> Url(Hostname(base), h.dirs, h.file, h.ext, "", h.frag)
      [] h.kind = "proto" ->
            Url(Hostname(base), <<"", h.host>> \o h.dirs, h.file, h.ext, "", h.frag)
      [] h.kind = "frag" -> NoUrl
      [] OTHER -> ResolveHref(h, base)

\* The test of lines 501-504 on the parsed fullUrl.
PassesLinkFilters(u, base) ==
    /\ Hostname(u) = Hostname(base)
    /\ ~HasExcludedExtension(u)
    /\ ~PathIncludesDir(u, "api")
    /\ ~PathIncludesDir(u, "admin")

\* Whether the loop body of lines 483-511 adds fullUrl to the set: new URL
\* throws on a string that is not absolute, and the catch drops the link.
KeepsLink(h, base) ==
    LET u == FullUrl(h, base)
    IN  u # NoUrl /\ u.abs /\ PassesLinkFilters(u, base)

\* Set.add keeps the first occurrence, Array.from the insertion order.
AddToSet(seq, u) == IF \E k \in 1..Len(seq) : seq[k] = u THEN seq ELSE Append(seq, u)

RECURSIVE CollectLoop(_, _, _)
CollectLoop(hs, base, acc) ==
    IF hs = <<>> THEN acc
    ELSE CollectLoop(Tail(hs), base,
                     IF KeepsLink(Head(hs), base)
                     THEN AddToSet(acc, FullUrl(Head(hs), base))
                     ELSE acc)

\* The page function of collectSiteLinks: lines 478-514.
collectSiteLinks(hrefs, base) == CollectLoop(hrefs, base, <<>>)

LinksIdle ==
    /\ linkBase = Url("site.com", <<>>, "", "", "", "")
    /\ pageHrefs = <<>>
    /\ siteLinks = <<>>
    /\ linksPc = "idle"

\* page.evaluate returned: lines 516-517.
CollectSiteLinks ==
    /\ linksPc = "ready"
    /\ siteLinks' = collectSiteLinks(pageHrefs, linkBase)
    /\ linksPc' = "done"
    /\ UNCHANGED <<runVars, chunkVars, batchVars, linkBase, pageHrefs>>

\* page.evaluate threw: the catch of lines 519-522.
CollectSiteLinksFails ==
    /\ linksPc = "ready"
    /\ siteLinks' = <<>>
    /\ linksPc' = "failed"
    /\ UNCHANGED <<runVars, chunkVars, batchVars, linkBase, pageHrefs>>

(***************************************************************************)
(* Ingestion: crawlContent and the four extractors it dispatches to.       *)
(***************************************************************************)
MaxPagesArg == 3
MaxCrawlLinks == 2
MaxRuns == 2

\* Numbers of the source.
DefaultMaxPages == 10
MinTextLength == 100
DefaultChunkSize == 1000
GitHubChunkSize == 1500
MaxImportantFiles == 20

\* The URLs of the model.
SiteUrl == Url("site.com", <<>>, "", "", "", "")
Page2 == Url("site.com", <<>>, "page2", "", "", "")
Page3 == Url("site.com", <<>>, "page3", "", "", "")
PdfUrl == Url("site.com", <<"files">>, "doc", "pdf", "", "")
MarkdownUrl == Url("site.com", <<"files">>, "guide", "md", "", "")
RepoUrl == Url("github.com", <<"owner">>, "repo", "", "", "")
GitHubRootUrl == Url("github.com", <<>>, "", "", "", "")

\* The extension that an opaque query or fragment string of the model ends
\* with, "" if it ends with none.
TailExt(str) ==
    CASE str = "file=a.pdf" -> "pdf"
      [] str = "a.md" -> "md"
      [] OTHER -> ""

\* What follows the last dot among the last characters of the whole URL
\* string: the fragment if there is one, else the query, else the path.
UrlTailExt(u) ==
    IF u.frag # "" THEN TailExt(u.frag)
    ELSE IF u.query # "" THEN TailExt(u.query)
    ELSE u.ext

\* url.toLowerCase().endsWith('.' + e) for some e in exts
EndsWithExt(u, exts) == Lower(UrlTailExt(u)) \in exts

\* The parts of the model's URLs that contain the characters github.com.
GitHubNames == {"github.com", "gist.github.com", "ref=github.com"}

\* url.includes('github.com')
IncludesGitHub(u) ==
    \/ {u.host, u.file, u.query, u.frag} \cap GitHubNames # {}
    \/ \E k \in 1..Len(u.dirs) : u.dirs[k] \in GitHubNames

\* A detection that looks for github.com before it looks for .pdf.
detectUrlTypeGitHubFirst(u) ==
    IF IncludesGitHub(u) THEN "github"
    ELSE IF EndsWithExt(u, {"pdf"}) THEN "pdf"
    ELSE IF EndsWithExt(u, {"md", "markdown"}) THEN "markdown"
    ELSE "website"

detectUrlType(u) ==
    IF EndsWithExt(u, {"pdf"}) THEN "pdf"
    ELSE IF IncludesGitHub(u) THEN "github"
    ELSE IF EndsWithExt(u, {"md", "markdown"}) THEN "markdown"
    ELSE "website"

\* Whether url.match(/github\.com\/([^\/]+)\/([^\/]+)/) finds an owner and a
\* repository: two non-empty runs of characters other than '/' after the host.
ParsesAsGitHubUrl(u) ==
    /\ u.host \in {"github.com", "gist.github.com"}
    /\ Len(u.dirs) >= 1
    /\ u.dirs[1] # ""
    /\ IF Len(u.dirs) >= 2 THEN u.dirs[2] # ""
       ELSE u.file # "" \/ u.ext # "" \/ u.query # "" \/ u.frag # ""

\* A text is known by its length and by the lengths of its sentences, the
\* pieces between runs of terminators, none of them blank.
Text(length, sentences) == [length |-> length, sentences |-> sentences]

\* The loop of splitTextIntoChunks on the lengths of the sentences: the number
\* of chunks pushed when the sentences left are ss and currentChunk has cur
\* characters.
RECURSIVE CountChunks(_, _, _)
CountChunks(ss, cur, maxSize) ==
    IF ss = <<>> THEN (IF cur > 0 THEN 1 ELSE 0)
    ELSE IF cur + Head(ss) > maxSize /\ cur > 0
         THEN 1 + CountChunks(Tail(ss), Head(ss), maxSize)
         ELSE CountChunks(Tail(ss), cur + (IF cur > 0 THEN 2 ELSE 0) + Head(ss), maxSize)

\* splitTextIntoChunks(text, maxSize).length
ChunkCount(txt, maxSize) == CountChunks(txt.sentences, 0, maxSize)

\* Array.prototype.slice(0, end)
SliceTo(seq, end) ==
    LET e == IF end < 0 THEN (IF Len(seq) + end > 0 THEN Len(seq) + end ELSE 0)
             ELSE (IF end < Len(seq) THEN end ELSE Len(seq))
    IN  SubSeq(seq, 1, e)

\* [...new Set(siteLinks)]
RECURSIVE Unique(_, _)
Unique(seq, acc) == IF seq = <<>> THEN acc ELSE Unique(Tail(seq), AddToSet(acc, Head(seq)))

\* uniqueLinks of lines 556-558.
UniqueLinks(links, url, pages, maxPages) ==
    SliceTo(SelectSeq(Unique(links, <<>>),
                      LAMBDA link : link # url /\ ~\E k \in 1..Len(pages) : pages[k].url = link),
            maxPages - 1)

\* The parts of an error message: literal text and URLs.
Lit(s) == [lit |-> s, url |-> NoUrl]
UrlPart(u) == [lit |-> "", url |-> u]

NoResult == [kind |-> "none", links |-> <<>>, totalChunks |-> 0, message |-> <<>>]
Returned(links, n) == [kind |-> "success", links |-> links, totalChunks |-> n, message |-> <<>>]
Raised(message) == [kind |-> "error", links |-> <<>>, totalChunks |-> 0, message |-> message]

\* The catch blocks of processPdf, processGitHubRepo and processMarkdown: the
\* first wraps the message of what it caught, the others give the URL. The
\* literals stand for the Korean texts of lines 174, 364 and 235.
WrapError(type, url, message) ==
    CASE type = "pdf" -> <<Lit("PDF failed: ")>> \o message
      [] type = "github" -> <<Lit("GitHub repository failed: "), UrlPart(url)>>
      [] OTHER -> <<Lit("Markdown failed: "), UrlPart(url)>>

\* Rows that all carry page_index 0, whatever their record says.
RowsOnPageZero(recs, firstId, run) ==
    { [id |-> firstId + k - 1, url |-> recs[k].url, chunk_index |-> recs[k].chunk_index,
       page_index |-> 0, created_at |-> run] : k \in 1..Len(recs) }

\* A row of table tmp for each record, with the ids the SERIAL column gives.
Rows(recs, firstId, run) ==
    { [id |-> firstId + k - 1, url |-> recs[k].url, chunk_index |-> recs[k].chunk_index,
       page_index |-> recs[k].page_index, created_at |-> run] : k \in 1..Len(recs) }

\* The urls of the captured pages: crawledPages.map(p => p.url)
PageUrls(pages) == [k \in 1..Len(pages) |-> pages[k].url]

\* Where the loops of saveToDatabase stand next, from page pi and chunk ci on:
\* at the embedding of a chunk, or past the last page at saveBatchRecords.
RECURSIVE NextChunkPos(_, _, _)
NextChunkPos(pages, pi, ci) ==
    IF pi >= Len(pages) THEN [pc |-> "insert", pageIndex |-> pi, chunkIndex |-> 0]
    ELSE IF ci < ChunkCount(pages[pi + 1].text, DefaultChunkSize)
         THEN [pc |-> "embed", pageIndex |-> pi, chunkIndex |-> ci]
         ELSE NextChunkPos(pages, pi + 1, 0)

RunIdle ==
    /\ runPc = "idle"
    /\ runNo = 0
    /\ runUrl = SiteUrl
    /\ runType = "website"
    /\ runMaxPages = 1
    /\ browser = "null"
    /\ crawledPages = <<>>
    /\ uniqueLinks = <<>>
    /\ linkIdx = 0
    /\ docParts = <<>>
    /\ docChunks = 0
    /\ pageIndex = 0
    /\ chunkIndex = 0
    /\ records = <<>>
    /\ tmp = {}
    /\ nextId = 1
    /\ log = <<>>
    /\ outcome = NoResult

\* crawlContent up to the first await of the extractor it dispatches to.
CrawlContent(url, maxPages) ==
    /\ runPc \in {"idle", "returned", "raised"}
    /\ runNo' = runNo + 1
    /\ runUrl' = url
    /\ runMaxPages' = maxPages
    /\ runType' = detectUrlType(url)
    /\ runPc' = (IF detectUrlType(url) = "website" THEN "launch" ELSE detectUrlType(url))
    /\ browser' = "null"
    /\ crawledPages' = <<>>
    /\ uniqueLinks' = <<>>
    /\ linkIdx' = 0
    /\ docParts' = <<>>
    /\ docChunks' = 0
    /\ pageIndex' = 0
    /\ chunkIndex' = 0
    /\ records' = <<>>
    /\ log' = <<>>
    /\ outcome' = NoResult
    /\ UNCHANGED <<dbVars, chunkVars, batchVars, linkVars>>

\* puppeteer.launch resolved.
Launch ==
    /\ runPc = "launch"
    /\ browser' = "open"
    /\ log' = Append(log, [ev |-> "launch"])
    /\ runPc' = "newPage"
    /\ UNCHANGED <<callVars, crawledPages, uniqueLinks, linkIdx, saveVars, dbVars, outcome,
                   chunkVars, batchVars, linkVars>>

\* puppeteer.launch rejected: browser stays null.
LaunchFails ==
    /\ runPc = "launch"
    /\ outcome' = Raised(<<Lit("puppeteer.launch")>>)
    /\ runPc' = "finally"
    /\ UNCHANGED <<callVars, siteVars, saveVars, dbVars, log, chunkVars, batchVars, linkVars>>

NewPage ==
    /\ runPc = "newPage"
    /\ runPc' = "seed"
    /\ UNCHANGED <<callVars, siteVars, saveVars, dbVars, log, outcome,
                   chunkVars, batchVars, linkVars>>

NewPageFails ==
    /\ runPc = "newPage"
    /\ outcome' = Raised(<<Lit("browser.newPage")>>)
    /\ runPc' = "finally"
    /\ UNCHANGED <<callVars, siteVars, saveVars, dbVars, log, chunkVars, batchVars, linkVars>>

\* The URLs a navigation to u can end at: u itself, or where the site
\* redirects it.
FinalUrls(u) ==
    {NormalizedUrl(u)} \cup (IF u = SiteUrl THEN {Page2} ELSE IF u = Page2 THEN {Page3} ELSE {})

\* crawlSinglePageWithPuppeteer(page, url) returned the content of the seed
\* page: finalUrl is window.location.href.
SeedPageCrawled(finalUrl, txt) ==
    /\ runPc = "seed"
    /\ finalUrl \in FinalUrls(runUrl)
    /\ log' = Append(log, [ev |-> "goto", url |-> runUrl, ok |-> TRUE,
                            length |-> txt.length])
    /\ crawledPages' = Append(crawledPages, [url |-> finalUrl, text |-> txt])
    /\ runPc' = "collect"
    /\ UNCHANGED <<callVars, browser, uniqueLinks, linkIdx, saveVars, dbVars, outcome,
                   chunkVars, batchVars, linkVars>>

\* crawlSinglePageWithPuppeteer(page, url) caught an error and returned null.
SeedPageFails ==
    /\ runPc = "seed"
    /\ log' = Append(log, [ev |-> "goto", url |-> runUrl, ok |-> FALSE])
    /\ runPc' = "collect"
    /\ UNCHANGED <<callVars, siteVars, saveVars, dbVars, outcome, chunkVars, batchVars, linkVars>>

\* From the links collected to the first link visit or, with no link to
\* visit, into saveToDatabase up to its first await.
AfterLinks(links) ==
    LET todo == UniqueLinks(links, runUrl, crawledPages, runMaxPages)
        pos == NextChunkPos(crawledPages, 0, 0)
    IN  /\ uniqueLinks' = todo
        /\ IF todo # <<>>
           THEN /\ linkIdx' = 1
                /\ runPc' = "visit"
                /\ UNCHANGED <<pageIndex, chunkIndex>>
           ELSE /\ linkIdx' = 0
                /\ runPc' = (IF crawledPages # <<>> THEN "delete" ELSE pos.pc)
                /\ pageIndex' = pos.pageIndex
                /\ chunkIndex' = pos.chunkIndex
        /\ log' = Append(log, [ev |-> "links", links |-> links])
        /\ UNCHANGED <<callVars, browser, crawledPages, docParts, docChunks, records, dbVars,
                       outcome, chunkVars, batchVars, linkVars>>

\* collectSiteLinks(page, url) on a page with these hrefs.
LinksCollected(hrefs) ==
    /\ runPc = "collect"
    /\ AfterLinks(collectSiteLinks(hrefs, runUrl))

\* collectSiteLinks caught an error and returned [].
LinkCollectionFails ==
    /\ runPc = "collect"
    /\ AfterLinks(<<>>)

\* crawlSinglePageWithPuppeteer(page, link) returned a page; the test of
\* line 565 decides whether it is captured.
LinkPageCrawled(finalUrl, txt) ==
    /\ runPc = "visit"
    /\ finalUrl \in FinalUrls(uniqueLinks[linkIdx])
    /\ log' = Append(log, [ev |-> "goto", url |-> uniqueLinks[linkIdx], ok |-> TRUE,
                            length |-> txt.length])
    /\ crawledPages' = (IF txt.length > MinTextLength
                        THEN Append(crawledPages, [url |-> finalUrl, text |-> txt])
                        ELSE crawledPages)
    /\ runPc' = "delay"
    /\ UNCHANGED <<callVars, browser, uniqueLinks, linkIdx, saveVars, dbVars, outcome,
                   chunkVars, batchVars, linkVars>>

\* A crawl that gives up at the first link page it cannot capture.
LinkPageFailsAndAborts ==
    /\ runPc = "visit"
    /\ log' = Append(log, [ev |-> "goto", url |-> uniqueLinks[linkIdx], ok |-> FALSE])
    /\ outcome' = Raised(<<Lit("page.goto")>>)
    /\ runPc' = "finally"
    /\ UNCHANGED <<callVars, siteVars, saveVars, dbVars, chunkVars, batchVars, linkVars>>

\* crawlSinglePageWithPuppeteer(page, link) caught an error and returned
\* null (lines 470-473): nothing is captured, the delay follows.
LinkPageFails ==
    /\ runPc = "visit"
    /\ log' = Append(log, [ev |-> "goto", url |-> uniqueLinks[linkIdx], ok |-> FALSE])
    /\ runPc' = "delay"
    /\ UNCHANGED <<callVars, siteVars, saveVars, dbVars, outcome, chunkVars, batchVars, linkVars>>

\* The timer of line 569 fired: on to the next link or, after the last one,
\* into saveToDatabase up to its first await.
Delay ==
    LET pos == NextChunkPos(crawledPages, 0, 0)
    IN  /\ runPc = "delay"
        /\ log' = Append(log, [ev |-> "delay"])
        /\ IF linkIdx < Len(uniqueLinks)
           THEN /\ linkIdx' = linkIdx + 1
                /\ runPc' = "visit"
                /\ UNCHANGED <<pageIndex, chunkIndex>>
           ELSE /\ runPc' = (IF crawledPages # <<>> THEN "delete" ELSE pos.pc)
                /\ pageIndex' = pos.pageIndex
                /\ chunkIndex' = pos.chunkIndex
                /\ UNCHANGED linkIdx
        /\ UNCHANGED <<callVars, browser, crawledPages, uniqueLinks, docParts, docChunks,
                       records, dbVars, outcome, chunkVars, batchVars, linkVars>>

\* deleteByUrls(urls) resolved: DELETE FROM tmp WHERE url = ANY(urls).
DeleteByUrls ==
    LET urls == {crawledPages[k].url : k \in 1..Len(crawledPages)}
        pos == NextChunkPos(crawledPages, 0, 0)
    IN  /\ runPc = "delete"
        /\ tmp' = {row \in tmp : row.url \notin urls}
        /\ log' = Append(log, [ev |-> "delete", urls |-> urls,
                                count |-> Cardinality({row \in tmp : row.url \in urls})])
        /\ runPc' = pos.pc
        /\ pageIndex' = pos.pageIndex
        /\ chunkIndex' = pos.chunkIndex
        /\ UNCHANGED <<callVars, siteVars, docParts, docChunks, records, nextId, outcome,
                       chunkVars, batchVars, linkVars>>

DeleteByUrlsFails ==
    /\ runPc = "delete"
    /\ outcome' = Raised(<<Lit("deleteByUrls")>>)
    /\ runPc' = "finally"
    /\ UNCHANGED <<callVars, siteVars, saveVars, dbVars, log, chunkVars, batchVars, linkVars>>

\* createEmbedding(chunk) resolved in saveToDatabase: the record is pushed.
CreateEmbedding ==
    LET pos == NextChunkPos(crawledPages, pageIndex, chunkIndex + 1)
    IN  /\ runPc = "embed"
        /\ records' = Append(records, [url |-> crawledPages[pageIndex + 1].url,
                                       chunk_index |-> chunkIndex,
                                       page_index |-> pageIndex])
        /\ log' = Append(log, [ev |-> "embed", page |-> pageIndex, chunk |-> chunkIndex])
        /\ runPc' = pos.pc
        /\ pageIndex' = pos.pageIndex
        /\ chunkIndex' = pos.chunkIndex
        /\ UNCHANGED <<callVars, siteVars, docParts, docChunks, dbVars, outcome,
                       chunkVars, batchVars, linkVars>>

CreateEmbeddingFails ==
    /\ runPc = "embed"
    /\ outcome' = Raised(<<Lit("createEmbedding")>>)
    /\ runPc' = "finally"
    /\ UNCHANGED <<callVars, siteVars, saveVars, dbVars, log, chunkVars, batchVars, linkVars>>

\* saveBatchRecords(records) resolved, and crawlWebsiteWithEmbedding built
\* its outcome.
SaveBatchRecords ==
    /\ runPc = "insert"
    /\ tmp' = tmp \cup Rows(records, nextId, runNo)
    /\ nextId' = nextId + Len(records)
    /\ log' = Append(log, [ev |-> "insert", count |-> Len(records)])
    /\ outcome' = Returned(PageUrls(crawledPages), Len(records))
    /\ runPc' = "finally"
    /\ UNCHANGED <<callVars, siteVars, saveVars, chunkVars, batchVars, linkVars>>

\* saveBatchRecords(records) rejected after k of its INSERTs went through,
\* each of them committed on its own.
SaveBatchRecordsFails(k) ==
    /\ runPc = "insert"
    /\ k = 0 \/ k < Len(records)
    /\ tmp' = tmp \cup Rows(SubSeq(records, 1, k), nextId, runNo)
    /\ nextId' = nextId + k
    /\ log' = Append(log, [ev |-> "insert", count |-> k])
    /\ outcome' = Raised(<<Lit("saveBatchRecords")>>)
    /\ runPc' = "finally"
    /\ UNCHANGED <<callVars, siteVars, saveVars, chunkVars, batchVars, linkVars>>

\* finally { if (browser) await browser.close() } when the call ends with
\* outcome res.
ClosesBrowserOnSuccess(b, res) == b # "null" /\ res.kind = "success"

ClosesBrowser(b, res) == b # "null"

\* The finally block of lines 595-599, then the return or the rethrow.
Finally ==
    /\ runPc = "finally"
    /\ IF ClosesBrowser(browser, outcome)
       THEN /\ browser' = "closed"
            /\ log' = Append(log, [ev |-> "close"])
       ELSE UNCHANGED <<browser, log>>
    /\ runPc' = (IF outcome.kind = "success" THEN "returned" ELSE "raised")
    /\ UNCHANGED <<callVars, crawledPages, uniqueLinks, linkIdx, saveVars, dbVars, outcome,
                   chunkVars, batchVars, linkVars>>

\* What processPdf throws before any embedding: the head request failed
\* (line 101, the message gives the URL), axios.get rejected, the content
\* type is not pdf (116), the body is empty (122), pdfParse rejected, the
\* text is empty (130).
PdfFailures == {"unreachable", "download", "notPdf", "emptyFile", "parse", "noText"}

PdfFailureMessage(cause, url) ==
    IF cause = "unreachable" THEN <<Lit("PDF URL not accessible: "), UrlPart(url)>>
    ELSE <<Lit(cause)>>

\* What the PDF's host answers: accessible is what isUrlAccessible returns,
\* download whether axios.get resolves, contentType the content-type header
\* ("" when there is none), empty whether the body has no bytes, parses
\* whether pdfParse resolves, text the trimmed text it extracts.
PdfResponse(accessible, download, contentType, empty, parses, txt) ==
    [accessible |-> accessible, download |-> download, contentType |-> contentType,
     empty |-> empty, parses |-> parses, text |-> txt]

\* contentType.includes('pdf')
IncludesPdf(contentType) == contentType \in {"application/pdf", "application/x-pdf"}

\* A processPdf without the test of lines 115-117.
PdfCheckIgnoresContentType(resp) ==
    IF ~resp.accessible THEN "unreachable"
    ELSE IF ~resp.download THEN "download"
    ELSE IF resp.empty THEN "emptyFile"
    ELSE IF ~resp.parses THEN "parse"
    ELSE IF resp.text.length = 0 THEN "noText"
    ELSE "ok"

\* The tests of lines 99-131 in their order: the first failure, or "ok".
PdfCheck(resp) ==
    IF ~resp.accessible THEN "unreachable"
    ELSE IF ~resp.download THEN "download"
    ELSE IF resp.contentType # "" /\ ~IncludesPdf(resp.contentType) THEN "notPdf"
    ELSE IF resp.empty THEN "emptyFile"
    ELSE IF ~resp.parses THEN "parse"
    ELSE IF resp.text.length = 0 THEN "noText"
    ELSE "ok"

\* processPdf threw before chunking and its catch rethrew (lines 98-131, 172-175).
PdfFails(resp) ==
    /\ runPc = "pdf"
    /\ PdfCheck(resp) \in PdfFailures
    /\ log' = Append(log, [ev |-> "fetch", ok |-> FALSE, response |-> resp])
    /\ outcome' = Raised(WrapError("pdf", runUrl, PdfFailureMessage(PdfCheck(resp), runUrl)))
    /\ runPc' = "raised"
    /\ UNCHANGED <<callVars, siteVars, saveVars, dbVars, chunkVars, batchVars, linkVars>>

\* From the text of a document to the embedding of its first chunk or, with
\* no chunk, to saveBatchRecords. resp is what the source answered.
DocChunked(parts, n, resp) ==
    /\ docParts' = parts
    /\ docChunks' = n
    /\ chunkIndex' = 0
    /\ runPc' = (IF n > 0 THEN "docEmbed" ELSE "docInsert")
    /\ log' = Append(log, [ev |-> "fetch", ok |-> TRUE, response |-> resp])
    /\ UNCHANGED <<callVars, siteVars, pageIndex, records, dbVars, outcome,
                   chunkVars, batchVars, linkVars>>

\* processPdf extracted a text (lines 98-139).
PdfExtracted(resp) ==
    /\ runPc = "pdf"
    /\ PdfCheck(resp) = "ok"
    /\ DocChunked(<<>>, ChunkCount(resp.text, DefaultChunkSize), resp)

\* processMarkdown: axios.get or marked rejected.
MarkdownFails ==
    /\ runPc = "markdown"
    /\ log' = Append(log, [ev |-> "fetch", ok |-> FALSE, response |-> "axios.get"])
    /\ outcome' = Raised(WrapError("markdown", runUrl, <<Lit("axios.get")>>))
    /\ runPc' = "raised"
    /\ UNCHANGED <<callVars, siteVars, saveVars, dbVars, chunkVars, batchVars, linkVars>>

\* processMarkdown got the text of the file (lines 185-200).
MarkdownFetched(txt) ==
    /\ runPc = "markdown"
    /\ DocChunked(<<>>, ChunkCount(txt, DefaultChunkSize), [text |-> txt])

\* processGitHubRepo: parseGitHubUrl throws.
GitHubUrlInvalid ==
    /\ runPc = "github"
    /\ ~ParsesAsGitHubUrl(runUrl)
    /\ outcome' = Raised(WrapError("github", runUrl, <<Lit("invalid GitHub URL")>>))
    /\ runPc' = "raised"
    /\ UNCHANGED <<callVars, siteVars, saveVars, dbVars, log, chunkVars, batchVars, linkVars>>

\* processGitHubRepo: repos.get or git.getTree rejected.
RepoFetchFails(cause) ==
    /\ runPc = "github"
    /\ ParsesAsGitHubUrl(runUrl)
    /\ log' = Append(log, [ev |-> "fetch", ok |-> FALSE, response |-> cause])
    /\ outcome' = Raised(WrapError("github", runUrl, <<Lit(cause)>>))
    /\ runPc' = "raised"
    /\ UNCHANGED <<callVars, siteVars, saveVars, dbVars, chunkVars, batchVars, linkVars>>

\* An item of the repository tree; blob is whether git.getBlob resolves.
TreeItem(type, name, ext, blob) == [type |-> type, name |-> name, ext |-> ext, blob |-> blob]

\* The filter of lines 273-287.
IsImportantFile(f) ==
    /\ f.type = "blob"
    /\ \/ f.ext \in {"md", "py", "js", "ts", "java", "cpp", "c", "go", "rs"}
       \/ f.name \in {"README", "CHANGELOG", "LICENSE"}

ImportantFiles(tree) == SliceTo(SelectSeq(tree, IsImportantFile), MaxImportantFiles)

\* The files fetched when the loop over the files ends at the first blob
\* that cannot be fetched.
RECURSIVE FetchedUntilFailure(_)
FetchedUntilFailure(files) ==
    IF files = <<>> \/ ~Head(files).blob THEN <<>>
    ELSE <<Head(files)>> \o FetchedUntilFailure(Tail(files))

\* An allContent whose files end at the first one that cannot be fetched.
AllContentUntilFailure(readme, description, tree) ==
    LET fetched == FetchedUntilFailure(ImportantFiles(tree))
    IN  (IF readme THEN <<"README.md">> ELSE <<>>)
        \o (IF description THEN <<"Repository Description">> ELSE <<>>)
        \o [k \in 1..Len(fetched) |-> fetched[k].name]

\* allContent of lines 290-323.
AllContent(readme, description, tree) ==
    LET fetched == SelectSeq(ImportantFiles(tree), LAMBDA f : f.blob)
    IN  (IF readme THEN <<"README.md">> ELSE <<>>)
        \o (IF description THEN <<"Repository Description">> ELSE <<>>)
        \o [k \in 1..Len(fetched) |-> fetched[k].name]

\* processGitHubRepo gathered the document (lines 246-329): readme is whether
\* getReadme resolved with content, description whether the repository has
\* one, txt the combined text.
RepoFetched(readme, description, tree, txt) ==
    /\ runPc = "github"
    /\ ParsesAsGitHubUrl(runUrl)
    /\ (AllContent(readme, description, tree) = <<>>) <=> (txt.length = 0)
    /\ DocChunked(AllContent(readme, description, tree), ChunkCount(txt, GitHubChunkSize),
                  [readme |-> readme, description |-> description, tree |-> tree, text |-> txt])

\* createEmbedding(chunk) resolved in one of the three document extractors.
DocCreateEmbedding ==
    /\ runPc = "docEmbed"
    /\ records' = Append(records, [url |-> runUrl, chunk_index |-> chunkIndex, page_index |-> 0])
    /\ log' = Append(log, [ev |-> "embed", page |-> 0, chunk |-> chunkIndex])
    /\ chunkIndex' = chunkIndex + 1
    /\ runPc' = (IF chunkIndex + 1 < docChunks THEN "docEmbed" ELSE "docInsert")
    /\ UNCHANGED <<callVars, siteVars, docParts, docChunks, pageIndex, dbVars, outcome,
                   chunkVars, batchVars, linkVars>>

DocCreateEmbeddingFails ==
    /\ runPc = "docEmbed"
    /\ outcome' = Raised(WrapError(runType, runUrl, <<Lit("createEmbedding")>>))
    /\ runPc' = "raised"
    /\ UNCHANGED <<callVars, siteVars, saveVars, dbVars, log, chunkVars, batchVars, linkVars>>

\* saveBatchRecords(records) resolved in a document extractor, which returns.
DocSaveBatchRecords ==
    /\ runPc = "docInsert"
    /\ tmp' = tmp \cup Rows(records, nextId, runNo)
    /\ nextId' = nextId + Len(records)
    /\ log' = Append(log, [ev |-> "insert", count |-> Len(records)])
    /\ outcome' = Returned(<<runUrl>>, docChunks)
    /\ runPc' = "returned"
    /\ UNCHANGED <<callVars, siteVars, saveVars, chunkVars, batchVars, linkVars>>

DocSaveBatchRecordsFails(k) ==
    /\ runPc = "docInsert"
    /\ k = 0 \/ k < Len(records)
    /\ tmp' = tmp \cup Rows(SubSeq(records, 1, k), nextId, runNo)
    /\ nextId' = nextId + k
    /\ log' = Append(log, [ev |-> "insert", count |-> k])
    /\ outcome' = Raised(WrapError(runType, runUrl, <<Lit("saveBatchRecords")>>))
    /\ runPc' = "raised"
    /\ UNCHANGED <<callVars, siteVars, saveVars, chunkVars, batchVars, linkVars>>

(***************************************************************************)
(* SpecChunk: the chunker applied to every bounded text.                   *)
(***************************************************************************)
ChunkIdle ==
    /\ text = <<>>
    /\ maxChunkSize = 1
    /\ chunks = <<>>
    /\ chunkPc = "idle"

InitChunk ==
    /\ text \in Texts
    /\ maxChunkSize \in 1..MaxChunkSizeArg
    /\ chunks = <<>>
    /\ chunkPc = "ready"
    /\ BatchIdle
    /\ LinksIdle
    /\ RunIdle

SplitTextIntoChunks ==
    /\ chunkPc = "ready"
    /\ chunks' = splitTextIntoChunks(text, maxChunkSize)
    /\ chunkPc' = "done"
    /\ UNCHANGED <<runVars, text, maxChunkSize, batchVars, linkVars>>

NextChunk == SplitTextIntoChunks

SpecChunk == InitChunk /\ [][NextChunk]_vars

(***************************************************************************)
(* SpecBatch: batchCrawl invocations interleaved at their awaits.          *)
(* SpecJobs: one batchCrawl invocation with status and results requests    *)
(* arriving at any point of it.                                            *)
(***************************************************************************)
InitBatch == ChunkIdle /\ BatchIdle /\ LinksIdle /\ RunIdle

NextBatch ==
    \/ \E p \in Procs, urls \in UrlLists, id \in JobIds : BatchCrawl(p, urls, id)
    \/ \E p \in Procs : CrawlUrlReturns(p)
    \/ \E p \in Procs : CrawlUrlThrows(p)

NextJobs ==
    \/ \E urls \in UrlLists, id \in JobIds : BatchCrawl("p1", urls, id)
    \/ CrawlUrlReturns("p1")
    \/ CrawlUrlThrows("p1")
    \/ \E id \in QueryIds : GetCrawlStatus(id)
    \/ \E id \in QueryIds : GetCrawlResults(id)

SpecJobs == InitBatch /\ [][NextJobs]_vars

SpecBatch == InitBatch /\ [][NextBatch]_vars

\* SpecBatch in which every awaited crawlUrl settles: it returns or throws
\* (the axios.get of line 394 has a timeout).
SpecBatchFair ==
    /\ InitBatch
    /\ [][NextBatch]_vars
    /\ \A p \in Procs : WF_vars(CrawlUrlReturns(p) \/ CrawlUrlThrows(p))

(***************************************************************************)
(* SpecLinks: collectSiteLinks applied to every bounded page.              *)
(***************************************************************************)
InitLinks ==
    /\ ChunkIdle
    /\ BatchIdle
    /\ linkBase \in BaseUrls
    /\ pageHrefs \in HrefLists
    /\ siteLinks = <<>>
    /\ linksPc = "ready"
    /\ RunIdle

NextLinks ==
    \/ CollectSiteLinks
    \/ CollectSiteLinksFails

SpecLinks == InitLinks /\ [][NextLinks]_vars

(***************************************************************************)
(* SpecCrawl: one website crawl of https://site.com/. The site may fail    *)
(* any navigation, redirect / to /page2 and /page2 to /page3, and links to *)
(* itself, /#top, /page2 and page3.                                        *)
(***************************************************************************)
CrawlHrefs ==
    { Href("root", "", <<>>, "", "", ""),
      Href("root", "", <<>>, "page2", "", ""),
      Href("rel", "", <<>>, "page3", "", ""),
      Href("root", "", <<>>, "", "", "top") }

CrawlHrefLists == UNION {[1..n -> CrawlHrefs] : n \in 0..MaxCrawlLinks}

SeedTexts == {Text(0, <<>>), Text(1201, <<600, 600>>)}

LinkTexts == {Text(99, <<99>>), Text(100, <<100>>), Text(101, <<101>>)}

InitCrawl == ChunkIdle /\ BatchIdle /\ LinksIdle /\ RunIdle

NextCrawl ==
    \/ \E maxPages \in 1..MaxPagesArg : runNo = 0 /\ CrawlContent(SiteUrl, maxPages)
    \/ Launch
    \/ LaunchFails
    \/ NewPage
    \/ NewPageFails
    \/ \E u \in {SiteUrl, Page2}, txt \in SeedTexts : SeedPageCrawled(u, txt)
    \/ SeedPageFails
    \/ \E hrefs \in CrawlHrefLists : LinksCollected(hrefs)
    \/ LinkCollectionFails
    \/ \E u \in {Page2, Page3}, txt \in LinkTexts : LinkPageCrawled(u, txt)
    \/ LinkPageFails
    \/ Delay
    \/ DeleteByUrls
    \/ DeleteByUrlsFails
    \/ CreateEmbedding
    \/ CreateEmbeddingFails
    \/ SaveBatchRecords
    \/ \E k \in 0..Len(records) : SaveBatchRecordsFails(k)
    \/ Finally

SpecCrawl == InitCrawl /\ [][NextCrawl]_vars

(***************************************************************************)
(* SpecIngest: crawlContent called up to MaxRuns times on one URL, a PDF,  *)
(* a Markdown file, a GitHub repository, github.com itself or a website    *)
(* of one page and one link.                                               *)
(***************************************************************************)
IngestUrls == {PdfUrl, MarkdownUrl, RepoUrl, GitHubRootUrl, SiteUrl}

IngestHrefLists == {<<>>, <<Href("root", "", <<>>, "page3", "", "")>>}

DocTexts == {Text(0, <<>>), Text(500, <<500>>), Text(1201, <<600, 600>>)}

PdfResponses ==
    { PdfResponse(accessible, download, contentType, empty, parses, txt) :
        accessible \in BOOLEAN, download \in BOOLEAN,
        contentType \in {"application/pdf", "text/html", ""},
        empty \in BOOLEAN, parses \in BOOLEAN, txt \in DocTexts }

\* A tree of 21 source files, one more than processGitHubRepo selects; the
\* blob of the second cannot be fetched.
LargeTreeNames ==
    <<"f01", "f02", "f03", "f04", "f05", "f06", "f07", "f08", "f09", "f10", "f11",
      "f12", "f13", "f14", "f15", "f16", "f17", "f18", "f19", "f20", "f21">>

LargeTree == [k \in 1..Len(LargeTreeNames) |-> TreeItem("blob", LargeTreeNames[k], "ts", k # 2)]

RepoTrees ==
    { <<>>,
      <<TreeItem("blob", "a", "md", TRUE), TreeItem("blob", "logo", "png", TRUE),
        TreeItem("tree", "src", "", TRUE), TreeItem("blob", "b", "ts", FALSE)>>,
      <<TreeItem("blob", "LICENSE", "", FALSE), TreeItem("blob", "main", "go", TRUE)>>,
      LargeTree }

NextIngest ==
    \/ \E url \in IngestUrls :
          /\ runNo < MaxRuns
          /\ runNo > 0 => url = runUrl
          /\ CrawlContent(url, DefaultMaxPages)
    \/ Launch
    \/ LaunchFails
    \/ NewPage
    \/ NewPageFails
    \/ \E txt \in SeedTexts : SeedPageCrawled(SiteUrl, txt)
    \/ SeedPageFails
    \/ \E hrefs \in IngestHrefLists : LinksCollected(hrefs)
    \/ LinkCollectionFails
    \/ LinkPageCrawled(Page3, Text(101, <<101>>))
    \/ LinkPageFails
    \/ Delay
    \/ DeleteByUrls
    \/ DeleteByUrlsFails
    \/ CreateEmbedding
    \/ CreateEmbeddingFails
    \/ SaveBatchRecords
    \/ \E k \in 0..Len(records) : SaveBatchRecordsFails(k)
    \/ Finally
    \/ \E resp \in PdfResponses : PdfFails(resp)
    \/ \E resp \in PdfResponses : PdfExtracted(resp)
    \/ MarkdownFails
    \/ \E txt \in DocTexts : MarkdownFetched(txt)
    \/ GitHubUrlInvalid
    \/ \E cause \in {"repos.get", "git.getTree"} : RepoFetchFails(cause)
    \/ \E readme \in BOOLEAN, description \in BOOLEAN, tree \in RepoTrees, txt \in DocTexts :
          RepoFetched(readme, description, tree, txt)
    \/ DocCreateEmbedding
    \/ DocCreateEmbeddingFails
    \/ DocSaveBatchRecords
    \/ \E k \in 0..Len(records) : DocSaveBatchRecordsFails(k)

SpecIngest == InitCrawl /\ [][NextIngest]_vars

(***************************************************************************)
(* SpecDetect: crawlContent called once on each URL of a set that varies   *)
(* the host, the path, its extension, the query and the fragment.          *)
(***************************************************************************)
DetectUrls ==
    { Url(host, dirs, file, ext, query, frag) :
        host \in {"site.com", "github.com"},
        dirs \in {<<>>, <<"owner">>},
        file \in {"doc", "repo"},
        ext \in {"", "pdf", "PDF", "md", "MD", "markdown", "Markdown", "html"},
        query \in {"", "v=1", "file=a.pdf"},
        frag \in {"", "top", "a.md"} }

NextDetect == \E url \in DetectUrls : runNo = 0 /\ CrawlContent(url, DefaultMaxPages)

SpecDetect == InitCrawl /\ [][NextDetect]_vars

(***************************************************************************)
(* Properties of the batch jobs.                                           *)
(***************************************************************************)
\* The results of the urls of a list whose fetch succeeds, in list order.
ExpectedResults(urls) ==
    LET ok == SelectSeq(urls, LAMBDA u : u \notin UnreachableUrls)
    IN  [k \in 1..Len(ok) |-> [threw |-> FALSE, url |-> ok[k]]]

\* The step in which invocation p returns to its caller.
Returns(p) == batchPc[p] # "done" /\ batchPc'[p] = "done"

\* The ids that a batchCrawl has registered.
RegisteredIds == {batchJobId[p] : p \in {q \in Procs : batchPc[q] # "idle"}}

\* C2: for any url list and any subset of urls whose fetch throws, batchCrawl
\* returns the results of exactly the urls that succeeded, in input order, does
\* not raise, and leaves the job's status at 'completed'.
C2_BatchReturnsWhatSucceeded ==
    [][\A p \in Procs :
          /\ batchPc'[p] # "raised"
          /\ Returns(p) =>
                /\ batchResults'[p] = ExpectedResults(batchUrls'[p])
                /\ crawlJobs'[batchJobId'[p]].status = "completed"]_vars

\* C2's case: a batch has returned in which one url failed and another one
\* succeeded.
C2_Witness ==
    \E p \in Procs :
        /\ batchPc[p] = "done"
        /\ \E i \in 1..Len(batchUrls[p]) : batchUrls[p][i] \in UnreachableUrls
        /\ batchResults[p] # <<>>

\* C3: when batchCrawl finishes, the job's completed counter equals the number
\* of urls attempted, failed ones included (completed = total).
C3_CompletedCountsAttempts ==
    [][\A p \in Procs :
          Returns(p) =>
              crawlJobs'[batchJobId'[p]].completed = Len(batchUrls'[p])]_vars

\* C4: getCrawlStatus and getCrawlResults fail with a not-found error for every
\* job id that no batchCrawl has registered, never answer it with an empty or
\* default outcome, and leave the job table unchanged; for every registered id
\* they succeed.
C4_UnknownJobIsNotFound ==
    [][reply' # NoReply =>
          /\ crawlJobs' = crawlJobs
          /\ reply'.jobId \in RegisteredIds => reply'.ok
          /\ reply'.jobId \notin RegisteredIds =>
                (~reply'.ok /\ reply'.error = "not found")]_vars

\* C4's case: while a job is registered, a request for another id that
\* generateJobId could have given was answered not-found.
C4_Witness ==
    /\ reply # NoReply
    /\ ~reply.ok
    /\ reply.jobId \in JobIds
    /\ RegisteredIds # {}

(***************************************************************************)
(* Properties of site-link collection.                                     *)
(***************************************************************************)
\* C8: every link collectSiteLinks returns has the seed's hostname, a path that
\* neither ends in an excluded extension nor contains /api/ or /admin/, is an
\* absolute URL and occurs once; and every same-host link of the page that
\* passes these filters is returned. A link of the page is read here as an
\* href that leads to a URL: a bare #fragment, which stays on the page, is not
\* asked for.
C8_SiteLinksSoundAndComplete ==
    linksPc = "done" =>
        /\ \A k \in 1..Len(siteLinks) :
              /\ siteLinks[k].abs
              /\ PassesLinkFilters(siteLinks[k], linkBase)
              /\ \A j \in 1..Len(siteLinks) : siteLinks[j] = siteLinks[k] => j = k
        /\ \A i \in 1..Len(pageHrefs) :
              LET target == ResolveHref(pageHrefs[i], linkBase)
              IN  (pageHrefs[i].kind # "frag" /\ PassesLinkFilters(target, linkBase)) =>
                      \E k \in 1..Len(siteLinks) : NormalizedUrl(siteLinks[k]) = target

(***************************************************************************)
(* Properties of ingestion.                                                *)
(***************************************************************************)
\* The events of the log of one kind, in order.
Events(kind) == SelectSeq(log, LAMBDA e : e.ev = kind)

\* C1: once crawlContent has been run twice on the same URL and the second
\* run has returned, the table holds exactly the records of the second run:
\* as many rows as the second run made chunks, none of them from the first run.
C1_ReingestionKeepsOnlyTheSecondRun ==
    (runNo = 2 /\ runPc = "returned") =>
        /\ \A row \in tmp : row.created_at = 2
        /\ Cardinality(tmp) = outcome.totalChunks

\* C5: when the navigation to the seed page fails, the crawl visits no link,
\* deletes, embeds and inserts nothing, and does not return a result.
C5_SeedFailureIsFatal ==
    (Events("goto") # <<>> /\ ~Events("goto")[1].ok) =>
        /\ Len(Events("goto")) = 1
        /\ Events("delete") = <<>> /\ Events("embed") = <<>> /\ Events("insert") = <<>>
        /\ runPc # "returned"

\* C6: a crawl that launched a browser has closed it exactly once when it
\* returns or raises, and never closes it more than once.
C6_SessionClosedExactlyOnce ==
    /\ Len(Events("close")) <= 1
    /\ (runPc \in {"returned", "raised"} /\ Events("launch") # <<>>) =>
            (Len(Events("close")) = 1 /\ browser = "closed")

\* A crawl that raised because an embedding request failed, its browser closed.
C6_Witness ==
    /\ runPc = "raised"
    /\ outcome.message = <<Lit("createEmbedding")>>
    /\ Events("embed") # <<>>
    /\ browser = "closed"

\* Whether the members of sub occur in seq in the same order.
RECURSIVE IsSubsequence(_, _)
IsSubsequence(sub, seq) ==
    IF sub = <<>> THEN TRUE
    ELSE IF seq = <<>> THEN FALSE
    ELSE IF Head(sub) = Head(seq) THEN IsSubsequence(Tail(sub), Tail(seq))
    ELSE IsSubsequence(sub, Tail(seq))

\* C7: for maxPages >= 1 the crawl has at most maxPages - 1 links to visit,
\* takes them in the order they were discovered, never sets out for the seed
\* URL or for the URL of a page it has already captured, and captures at most
\* maxPages pages.
C7_VisitsBoundedOrderedAndFresh ==
    /\ Len(uniqueLinks) <= runMaxPages - 1
    /\ Len(Events("goto")) <= runMaxPages
    /\ Events("links") # <<>> =>
          /\ IsSubsequence(uniqueLinks, Events("links")[1].links)
          /\ \A k \in 2..Len(Events("goto")) : Events("goto")[k].url = uniqueLinks[k - 1]
    /\ runPc = "visit" =>
          /\ uniqueLinks[linkIdx] # runUrl
          /\ \A k \in 1..Len(crawledPages) : crawledPages[k].url # uniqueLinks[linkIdx]
    /\ Len(crawledPages) <= runMaxPages

(***************************************************************************)
(* Properties of the chunker.                                              *)
(***************************************************************************)
\* A chunk that holds no join, hence one sentence.
IsSingleSentence(c) == \A k \in 1..Len(c) : ~IsTerminator(c[k])

\* chunk.split(". "): the pieces of a chunk between its ". " joins.
RECURSIVE SplitOnDotSpace(_, _)
SplitOnDotSpace(s, cur) ==
    IF s = <<>> THEN <<cur>>
    ELSE IF Len(s) >= 2 /\ SubSeq(s, 1, 2) = DotSpace
         THEN <<cur>> \o SplitOnDotSpace(SubSeq(s, 3, Len(s)), <<>>)
         ELSE SplitOnDotSpace(Tail(s), Append(cur, Head(s)))

\* The pieces of one chunk, each with its place in the chunk.
PiecesOfChunk(c) ==
    LET ps == SplitOnDotSpace(c, <<>>)
    IN  [k \in 1..Len(ps) |->
            [piece |-> ps[k], first |-> k = 1, last |-> k = Len(ps)]]

RECURSIVE PiecesOf(_)
PiecesOf(cs) ==
    IF cs = <<>> THEN <<>>
    ELSE PiecesOfChunk(Head(cs)) \o PiecesOf(Tail(cs))

\* A sentence as it stands in a chunk: trimmed where it touches the chunk's end.
AsInChunk(sentence, first, last) ==
    LET l == IF first THEN TrimStart(sentence) ELSE sentence
    IN  IF last THEN TrimEnd(l) ELSE l

\* C9: every non-final chunk is at most maxChunkSize long unless it consists of
\* a single sentence that is itself longer than maxChunkSize.
C9_NonFinalChunkWithinBound ==
    chunkPc = "done" =>
        \A i \in 1..(Len(chunks) - 1) :
            \/ Len(chunks[i]) <= maxChunkSize
            \/ IsSingleSentence(chunks[i])

\* C10: splitting each chunk back at its ". " joins and concatenating the
\* pieces over all chunks in order yields exactly the sequence of non-blank
\* sentences of the input, up to the white space trimmed at chunk ends.
C10_ChunksReconstructSentences ==
    chunkPc = "done" =>
        LET S == Sentences(text)
            P == PiecesOf(chunks)
        IN  /\ Len(P) = Len(S)
            /\ \A i \in 1..Len(P) :
                   P[i].piece = AsInChunk(S[i], P[i].first, P[i].last)

\* C10's case: a text of three sentences or more, split into several chunks, one
\* of which joins sentences and one of which lost white space to the trim.
C10_Witness ==
    /\ chunkPc = "done"
    /\ Len(chunks) >= 2
    /\ Len(Sentences(text)) >= 3
    /\ \E i \in 1..Len(chunks) : ~IsSingleSentence(chunks[i])
    /\ \E i \in 1..Len(Sentences(text)) : Trim(Sentences(text)[i]) # Sentences(text)[i]

\* C11: chunking a chunk again with the same maxChunkSize splits no further:
\* it returns one chunk, holding the sentences of that chunk.
C11_RechunkingSplitsNoFurther ==
    chunkPc = "done" =>
        \A i \in 1..Len(chunks) :
            LET again == splitTextIntoChunks(chunks[i], maxChunkSize)
            IN  /\ Len(again) = 1
                /\ Len(PiecesOf(again)) = Len(Sentences(chunks[i]))

\* C12: every non-blank sentence of the text lies whole in exactly one chunk,
\* the chunks in the order of the sentences; every chunk is non-empty after
\* trimming; and a sentence longer than maxChunkSize is alone in its chunk.
C12_SentencesAreAtomic ==
    chunkPc = "done" =>
        LET S == Sentences(text)
            P == PiecesOf(chunks)
        IN  /\ \A i \in 1..Len(chunks) : Trim(chunks[i]) # <<>>
            /\ Len(P) = Len(S)
            /\ \A i \in 1..Len(P) :
                   /\ Trim(P[i].piece) = Trim(S[i])
                   /\ Len(S[i]) > maxChunkSize => (P[i].first /\ P[i].last)

\* C12's case: a sentence longer than maxChunkSize that follows another
\* sentence and is followed by one.
C12_Witness ==
    /\ chunkPc = "done"
    /\ \E i \in 2..(Len(Sentences(text)) - 1) : Len(Sentences(text)[i]) > maxChunkSize
    /\ Len(chunks) >= 3

(***************************************************************************)
(* Properties of type detection.                                           *)
(***************************************************************************)
\* C13: the type crawlContent detects is pdf when the URL ends with .pdf in
\* any letter case; else github when it contains github.com; else markdown
\* when it ends with .md or .markdown in any letter case; else website; and
\* the call stands in the extractor of that type.
C13_DetectionRulesInOrder ==
    runNo = 1 =>
        /\ runType \in {"pdf", "github", "markdown", "website"}
        /\ EndsWithExt(runUrl, {"pdf"}) => runType = "pdf"
        /\ (~EndsWithExt(runUrl, {"pdf"}) /\ IncludesGitHub(runUrl)) => runType = "github"
        /\ (~EndsWithExt(runUrl, {"pdf"}) /\ ~IncludesGitHub(runUrl)
              /\ EndsWithExt(runUrl, {"md", "markdown"})) => runType = "markdown"
        /\ (~EndsWithExt(runUrl, {"pdf", "md", "markdown"}) /\ ~IncludesGitHub(runUrl))
              => runType = "website"
        /\ runPc = (IF runType = "website" THEN "launch" ELSE runType)

\* A github.com URL whose last characters are .PDF, sent to the PDF extractor.
C13_Witness ==
    /\ runNo = 1
    /\ runUrl.host = "github.com"
    /\ runUrl.ext = "PDF" /\ runUrl.query = "" /\ runUrl.frag = ""
    /\ runPc = "pdf"

\* C14: a URL whose path ends with .pdf in any letter case is detected as
\* pdf, and a URL without github.com whose path ends with .md or .markdown
\* as markdown, whatever query or fragment follows the path.
C14_DetectionLooksAtThePath ==
    runNo = 1 =>
        /\ Lower(runUrl.ext) = "pdf" => runType = "pdf"
        /\ (Lower(runUrl.ext) \in {"md", "markdown"} /\ ~IncludesGitHub(runUrl))
              => runType = "markdown"

(***************************************************************************)
(* Properties of the store and of the failures of the extractors.          *)
(***************************************************************************)
\* The rows of the table that share the url and page_index of row.
RowsLike(row) == {r \in tmp : r.url = row.url /\ r.page_index = row.page_index}

\* C15: in every state of the table the chunk_index values of the rows that
\* share a url and a page_index are 0, 1, ... without gap or repetition, and
\* the rows of PDF, Markdown and GitHub sources have page_index 0.
C15_ChunkIndexContiguousAndUnique ==
    \A row \in tmp :
        /\ \A other \in RowsLike(row) : other.chunk_index = row.chunk_index => other = row
        /\ {r.chunk_index : r \in RowsLike(row)} = 0..(Cardinality(RowsLike(row)) - 1)
        /\ row.url \in {PdfUrl, MarkdownUrl, RepoUrl} => row.page_index = 0

\* C16: processGitHubRepo on a URL that is not github.com/<owner>/<repo>
\* raises before any repository call, embedding or write, and what it raises
\* differs from what it raises when a repository call fails.
C16_InvalidGitHubUrlIsTellable ==
    (runType = "github" /\ runPc = "raised" /\ ~ParsesAsGitHubUrl(runUrl)) =>
        /\ log = <<>>
        /\ \A cause \in {"repos.get", "git.getTree"} :
               outcome # Raised(WrapError("github", runUrl, <<Lit(cause)>>))

\* What the host answered to the processPdf of this run, once it answered.
PdfAnswer == Events("fetch")[1].response

\* The three answers the claim names: unreachable, a content type that is
\* not a PDF's, no extractable text.
PdfAnswerIsUnusable ==
    \/ ~PdfAnswer.accessible
    \/ PdfAnswer.contentType # "" /\ ~IncludesPdf(PdfAnswer.contentType)
    \/ PdfAnswer.text.length = 0

\* C17: when the URL of a PDF is unreachable, when the answer has a content
\* type that is not a PDF's, and when the PDF has no extractable text,
\* processPdf throws, requests no embedding and leaves the store as it was:
\* the run deleted nothing and inserted nothing.
C17_UnusablePdfFailsBeforeAnyEffect ==
    (runType = "pdf" /\ Events("fetch") # <<>> /\ PdfAnswerIsUnusable) =>
        /\ runPc = "raised"
        /\ outcome.kind = "error"
        /\ Events("embed") = <<>>
        /\ Events("delete") = <<>>
        /\ Events("insert") = <<>>
        /\ \A row \in tmp : row.created_at < runNo

\* A second run on a PDF URL whose host answers with an HTML page, after a
\* first run stored rows: the run threw and the rows are the first run's.
C17_Witness ==
    /\ runType = "pdf"
    /\ runNo = 2
    /\ runPc = "raised"
    /\ Events("fetch") # <<>>
    /\ PdfAnswer.accessible /\ PdfAnswer.download
    /\ PdfAnswer.contentType = "text/html"
    /\ PdfAnswer.text.length > 0
    /\ tmp # {}
    /\ Events("embed") = <<>>

\* The anchor operation of the run failed: the fetch of the PDF, of the
\* Markdown file or of the repository, or the navigation to the seed page.
AnchorFailed ==
    \/ Events("fetch") # <<>> /\ ~Events("fetch")[1].ok
    \/ Events("goto") # <<>> /\ ~Events("goto")[1].ok

\* C18: a run whose anchor operation failed ends with an error, and the
\* message of the error contains the URL the run was given, whatever the
\* type of the URL and whatever the cause of the failure.
C18_FatalFailureNamesTheUrl ==
    (runPc \in {"returned", "raised"} /\ AnchorFailed) =>
        /\ outcome.kind = "error"
        /\ \E k \in 1..Len(outcome.message) : outcome.message[k].url = runUrl

(***************************************************************************)
(* Properties of the life of a job.                                        *)
(***************************************************************************)
IsFinal(job) == job.status \in {"completed", "failed"}

\* An invocation that suspends on its first url has registered a running job.
JobStartsRunning ==
    [][\A p \in Procs :
          (batchPc[p] = "idle" /\ batchPc'[p] = "fetching") =>
              crawlJobs'[batchJobId'[p]].status = "running"]_vars

\* A running job gets to completed or failed, and is failed only with the
\* message of the error recorded.
JobEnds ==
    /\ \A id \in JobIds : (crawlJobs[id].status = "running") ~> IsFinal(crawlJobs[id])
    /\ [](\A id \in JobIds : crawlJobs[id].status = "failed" => crawlJobs[id].error # "")

\* A job is completed only once an invocation of its id has gone through
\* all its urls.
CompletedAfterAllUrls ==
    [](\A id \in JobIds :
          crawlJobs[id].status = "completed" =>
              \E p \in Procs : batchJobId[p] = id /\ batchPc[p] = "done"
                                /\ batchIdx[p] > Len(batchUrls[p]))

\* The status of a completed or failed job stays what it is.
FinalStatusIsStable ==
    [][\A id \in JobIds :
          IsFinal(crawlJobs[id]) => crawlJobs'[id].status = crawlJobs[id].status]_vars

\* C19: a job of batchCrawl starts 'running'; when every fetch returns or
\* fails it gets to 'completed', after all its urls were attempted, or to
\* 'failed' with the error message recorded; and once it is 'completed' or
\* 'failed' its status never changes again.
C19_JobRunsToAFinalStatusAndStaysThere ==
    JobStartsRunning /\ JobEnds /\ CompletedAfterAllUrls /\ FinalStatusIsStable

(***************************************************************************)
(* Properties of saveToDatabase.                                           *)
(***************************************************************************)
\* The positions in the log of the events of a kind.
Positions(kind) == {k \in 1..Len(log) : log[k].ev = kind}

\* C20: in a website crawl, the records of the captured page urls are
\* deleted, once, before the first embedding is requested and before any
\* record is inserted; the records are inserted by one saveBatchRecords after
\* the last embedding; and each row of the run carries as page_index the
\* position of its page in the list of captured pages.
C20_DeleteThenEmbedThenInsert ==
    runType = "website" =>
        /\ Cardinality(Positions("delete")) <= 1
        /\ Cardinality(Positions("insert")) <= 1
        /\ \A d \in Positions("delete") :
              /\ log[d].urls = {crawledPages[k].url : k \in 1..Len(crawledPages)}
              /\ \A e \in Positions("embed") \cup Positions("insert") : d < e
        /\ Positions("embed") # {} => Positions("delete") # {}
        /\ \A e \in Positions("embed"), i \in Positions("insert") : e < i
        /\ \A row \in tmp :
              row.created_at = runNo =>
                  /\ Positions("insert") # {}
                  /\ row.page_index < Len(crawledPages)
                  /\ crawledPages[row.page_index + 1].url = row.url
                  /\ \E e \in Positions("embed") :
                        log[e].page = row.page_index /\ log[e].chunk = row.chunk_index

\* A crawl that captured two pages has returned, and a row of its second
\* page is in the table.
C20_Witness ==
    /\ runType = "website"
    /\ runPc = "returned"
    /\ Len(crawledPages) >= 2
    /\ crawledPages[1].url # crawledPages[2].url
    /\ Positions("delete") # {}
    /\ \E row \in tmp : row.created_at = runNo /\ row.page_index = 1

(***************************************************************************)
(* Properties of the visits of a website crawl.                            *)
(***************************************************************************)
\* The visits of link pages that failed, as positions among the goto events.
FailedLinkVisits == {k \in 2..Len(Events("goto")) : ~Events("goto")[k].ok}

\* The run is past its loop over the links.
PastTheLinks == runPc \in {"delete", "embed", "insert", "finally", "returned", "raised"}

\* C21: when the visit of a link page fails, the run is not aborted: the
\* page is not captured, every later link of the list is still visited, and
\* the run goes on to saveToDatabase and returns unless saveToDatabase itself
\* fails.
C21_LinkPageFailureIsNotFatal ==
    (runType = "website" /\ FailedLinkVisits # {}) =>
        /\ Len(crawledPages) <= Len(SelectSeq(Events("goto"), LAMBDA e : e.ok))
        /\ PastTheLinks =>
              /\ Len(Events("goto")) = 1 + Len(uniqueLinks)
              /\ \A k \in 1..Len(uniqueLinks) : Events("goto")[k + 1].url = uniqueLinks[k]
        /\ outcome.kind = "error" =>
              outcome.message \in {<<Lit("deleteByUrls")>>, <<Lit("createEmbedding")>>,
                                   <<Lit("saveBatchRecords")>>}
        /\ runPc = "raised" => outcome.kind = "error"
        /\ runPc = "returned" => outcome.kind = "success" /\ Events("insert") # <<>>

\* A crawl whose first link page failed has visited its second link,
\* captured it, stored its chunks and returned.
C21_Witness ==
    /\ runType = "website"
    /\ runPc = "returned"
    /\ Len(Events("goto")) = 3
    /\ ~Events("goto")[2].ok
    /\ Events("goto")[3].ok
    /\ \E k \in 1..Len(crawledPages) : crawledPages[k].url = NormalizedUrl(uniqueLinks[2])
    /\ \E row \in tmp : row.url = NormalizedUrl(uniqueLinks[2])

\* The visits of link pages that returned a content whose normalized text
\* has at least n characters.
LinkPagesOfLength(n) ==
    {k \in 2..Len(Events("goto")) : Events("goto")[k].ok /\ Events("goto")[k].length >= n}

\* The seed page, when its visit returned a content, is captured as it is.
SeedPagesCaptured ==
    IF Events("goto") # <<>> /\ Events("goto")[1].ok THEN 1 ELSE 0

\* C22: a link page is captured exactly when its normalized text has 100
\* characters or more: the captured pages are the seed page and the link
\* pages of 100 characters or more.
C22_LinkPageKeptFromHundredCharacters ==
    runType = "website" =>
        Len(crawledPages) = SeedPagesCaptured + Cardinality(LinkPagesOfLength(MinTextLength))

\* C23: within one website crawl a delay lies between every two page
\* visits, the visit of the seed page and that of the first link included:
\* no two navigations follow each other without a delay.
C23_DelayBetweenAnyTwoVisits ==
    runType = "website" =>
        \A i, j \in Positions("goto") :
            i < j => \E d \in Positions("delay") : i < d /\ d < j

(***************************************************************************)
(* Properties of the order of the fetches of a batch.                      *)
(***************************************************************************)
\* The step in which the fetch that invocation p awaits settles.
Settles(p) == batchPc[p] = "fetching" /\ batchIdx'[p] # batchIdx[p]

JobIsOwn(p) ==
    LET job == crawlJobs[batchJobId[p]]
        own == ExpectedResults(SubSeq(batchUrls[p], 1, batchIdx[p] - 1))
    IN  /\ job # NoJob
        /\ job.total = Len(batchUrls[p])
        /\ job.results = own
        /\ job.completed = Len(own)

\* C25: with several batchCrawl invocations in flight, a job entry is
\* written only by the invocation that created it: at every await and at its
\* end the job of an invocation holds the results and the count of its own
\* urls only, and no invocation registers its job over an entry of the table.
C25_JobsAreWrittenByTheirOwnInvocation ==
    /\ [](\A p \in Procs : batchPc[p] \in {"fetching", "done"} => JobIsOwn(p))
    /\ [][\A p \in Procs :
             (batchPc[p] = "idle" /\ batchPc'[p] # "idle") =>
                 crawlJobs[batchJobId'[p]] = NoJob]_vars

(***************************************************************************)
(* Properties of processGitHubRepo.                                        *)
(***************************************************************************)
\* What GitHub answered to the processGitHubRepo of this run.
RepoAnswer == Events("fetch")[1].response

\* The files of the answer that the run is to fetch: the first 20 of the
\* tree that pass the filter, in tree order.
SelectedFiles ==
    LET important == SelectSeq(RepoAnswer.tree, IsImportantFile)
    IN  SubSeq(important, 1, IF Len(important) < MaxImportantFiles
                             THEN Len(important) ELSE MaxImportantFiles)

\* The names of the selected files whose content could be fetched.
FetchedNames ==
    LET fetched == SelectSeq(SelectedFiles, LAMBDA f : f.blob)
    IN  [k \in 1..Len(fetched) |-> fetched[k].name]

\* C26: in processGitHubRepo a README or a selected file that cannot be
\* fetched is skipped: the document holds the README when it was fetched, the
\* description, and every selected file (at most 20, in tree order) that
\* could be fetched, and a run that returns has stored the chunks of that
\* document. When the repository or its tree cannot be fetched the run
\* raises and has embedded and stored nothing.
C26_GitHubSkipsWhatItCannotFetch ==
    (runType = "github" /\ Events("fetch") # <<>>) =>
        IF Events("fetch")[1].ok
        THEN /\ docParts = (IF RepoAnswer.readme THEN <<"README.md">> ELSE <<>>)
                            \o (IF RepoAnswer.description
                                THEN <<"Repository Description">> ELSE <<>>)
                            \o FetchedNames
             /\ Len(SelectedFiles) <= MaxImportantFiles
             /\ docChunks = ChunkCount(RepoAnswer.text, GitHubChunkSize)
             /\ runPc = "returned" =>
                   /\ outcome.kind = "success"
                   /\ Events("insert") # <<>>
                   /\ Cardinality({row \in tmp : row.created_at = runNo}) = docChunks
        ELSE /\ runPc = "raised"
             /\ outcome.kind = "error"
             /\ Events("embed") = <<>> /\ Events("insert") = <<>>
             /\ \A row \in tmp : row.created_at < runNo

\* A run on a repository whose README and one selected file could not be
\* fetched, while a later file could, has returned and stored chunks.
C26_Witness ==
    /\ runType = "github"
    /\ runPc = "returned"
    /\ Events("fetch") # <<>>
    /\ Events("fetch")[1].ok
    /\ ~RepoAnswer.readme
    /\ \E i, j \in 1..Len(SelectedFiles) :
          i < j /\ ~SelectedFiles[i].blob /\ SelectedFiles[j].blob
    /\ Len(SelectSeq(RepoAnswer.tree, IsImportantFile)) > MaxImportantFiles
    /\ Len(docParts) = MaxImportantFiles - 1
    /\ \E row \in tmp : row.created_at = runNo

\* C27: in every state of the job table, those between two awaits of a
\* running batch included, each job has 0 <= completed <= total and as many
\* results as completed says, and completed never decreases.
C27_CompletedIsBoundedAndMonotonic ==
    /\ [](\A id \in JobIds :
            crawlJobs[id] # NoJob =>
                /\ 0 <= crawlJobs[id].completed
                /\ crawlJobs[id].completed <= crawlJobs[id].total
                /\ crawlJobs[id].completed = Len(crawlJobs[id].results))
    /\ [][\A id \in JobIds :
             crawlJobs[id] # NoJob =>
                 crawlJobs'[id].completed >= crawlJobs[id].completed]_vars

(***************************************************************************)
(* Properties of a website ingestion that fails.                           *)
(***************************************************************************)
\* C28: a website ingestion that raises leaves the store as it was before
\* the run: it has removed no record that was stored for the urls of its
\* pages, and none of its own records is in the table.
C28_FailedIngestionLeavesTheStore ==
    (runType = "website" /\ runPc = "raised") =>
        /\ \A d \in Positions("delete") : log[d].count = 0
        /\ \A row \in tmp : row.created_at < runNo

(***************************************************************************)
(* Properties of the set of pages of a website crawl.                      *)
(***************************************************************************)
\* The page a URL names: the URL without its fragment.
PageOf(u) == [NormalizedUrl(u) EXCEPT !.frag = ""]

\* C29: the pages captured by one website crawl have pairwise distinct
\* URLs, and no page is navigated to twice in the run.
C29_CapturedPagesAreDistinct ==
    runType = "website" =>
        /\ \A i, j \in 1..Len(crawledPages) :
              i # j => crawledPages[i].url # crawledPages[j].url
        /\ \A i, j \in 1..Len(Events("goto")) :
              i # j => PageOf(Events("goto")[i].url) # PageOf(Events("goto")[j].url)

(***************************************************************************)
(* Properties of the progress that getCrawlStatus reports.                 *)
(***************************************************************************)
\* C30: for every job of the table, one made from an empty url list
\* included, getCrawlStatus reports a percentage that is an integer from 0 to
\* 100, the nearest to 100 * completed / total, and that is 100 exactly when
\* every url of the job has produced a result.
C30_PercentageIsARoundedShare ==
    (reply.op = "status" /\ reply.ok) =>
        LET job == crawlJobs[reply.jobId]
            v == reply.percentage.value
        IN  /\ ~reply.percentage.nan
            /\ v \in 0..100
            /\ 2 * job.total * v - job.total <= 200 * job.completed
            /\ 200 * job.completed < 2 * job.total * v + job.total
            /\ (v = 100) <=> (Len(job.results) = job.total)

====
